---- MODULE Spec2Model ----
(***************************************************************************)
(* Model of src/server.js: two in-memory lists, authors and books, and the *)
(* GraphQL resolvers (queries, field resolvers, mutations) that read and   *)
(* mutate them.  Every resolver runs to completion before the next starts, *)
(* so each resolver is one atomic action.                                  *)
(***************************************************************************)
EXTENDS Integers, Sequences, FiniteSets, TLC

VARIABLES books, authors, last, hist, calls

vars == <<books, authors, last, hist, calls>>

(* ---------------------------- bounds ----------------------------------- *)

\* number of resolver calls of one run
MaxCalls == 3

\* argument values the client sends
NewNames == {"X"}
BookIdArgs == {0, 1, 8, 9}
AuthorIdArgs == {0, 1, 3, 4}
AuthorRefArgs == {1, 4}

(* ---------------------------- data store ------------------------------- *)

seedAuthors ==
  << [id |-> 1, name |-> "J. K. Rowling"],
     [id |-> 2, name |-> "J. R. R. Tolkien"],
     [id |-> 3, name |-> "Brent Weeks"] >>

seedBooks ==
  << [id |-> 1, name |-> "Harry Porter and the Chamber of Secrets", authorId |-> 1],
     [id |-> 2, name |-> "Harry Porter and the Prisoner of Azkaban", authorId |-> 1],
     [id |-> 3, name |-> "Harry Porter and the Goblet of Fire", authorId |-> 1],
     [id |-> 4, name |-> "The Fellowship of the Ring", authorId |-> 2],
     [id |-> 5, name |-> "The Two Towers", authorId |-> 2],
     [id |-> 6, name |-> "The Return of the King", authorId |-> 2],
     [id |-> 7, name |-> "The Way of Shadows", authorId |-> 3],
     [id |-> 8, name |-> "Beyond the Shadows", authorId |-> 3] >>

\* undefined, the value Array.prototype.find returns when nothing matches
NotFound == [found |-> FALSE]

(* ---------------------------- array helpers ---------------------------- *)

\* index of the first element of s at or after position i whose id is id,
\* 0 when there is none: the scan of Array.prototype.find
RECURSIVE findIndexFrom(_, _, _)
findIndexFrom(s, id, i) ==
  IF i > Len(s) THEN 0
  ELSE IF s[i].id = id THEN i
  ELSE findIndexFrom(s, id, i + 1)

findIndex(s, id) == findIndexFrom(s, id, 1)

\* s.find((x) => x.id === id)
find(s, id) ==
  LET i == findIndex(s, id) IN IF i = 0 THEN NotFound ELSE s[i]

\* s.filter((x) => x.id !== id)
filterOut(s, id) == SelectSeq(s, LAMBDA x : x.id # id)

(* ---------------------------- field resolvers -------------------------- *)

\* variant of BookAuthorResolve that compares with the book's own id instead
\* of its authorId; C8_ResolversCorrect tells the two apart
BookAuthorResolve_ByBookId(as, book) == find(as, book.id)

\* BookType.author: authors.find((author) => author.id === book.authorId)
BookAuthorResolve(as, book) == find(as, book.authorId)

\* AuthorType.books: books.filter((book) => book.authorId === author.id)
AuthorBooksResolve(bs, author) == SelectSeq(bs, LAMBDA b : b.authorId = author.id)

(* ---------------------------- root queries ----------------------------- *)

bookResolve(bs, id) == find(bs, id)

booksResolve(bs) == bs

authorResolve(as, id) == find(as, id)

authorsResolve(as) == as

(* ---------------------------- mutations -------------------------------- *)
\* Each mutation resolver maps the collection it works on and its arguments
\* to the collection after the call, the value returned and whether the
\* resolver threw.

\* s without its element at position i
removeAt(s, i) == SubSeq(s, 1, i - 1) \o SubSeq(s, i + 1, Len(s))

\* variant of addBookResolve that numbers from 0 (id = length);
\* C1_AddAppends tells the two apart
addBookResolve_IdIsLength(bs, name, authorId) ==
  LET book == [id |-> Len(bs), name |-> name, authorId |-> authorId]
  IN  [coll |-> Append(bs, book), rec |-> book, list |-> <<>>, fault |-> FALSE]

\* variant of addBookResolve that takes the largest id in use plus one;
\* C3_DeleteOtherThenAddDuplicates tells the two apart
addBookResolve_NextFreeId(bs, name, authorId) ==
  LET used == {bs[i].id : i \in 1..Len(bs)} \cup {0}
      top == CHOOSE m \in used : \A n \in used : n <= m
      book == [id |-> top + 1, name |-> name, authorId |-> authorId]
  IN  [coll |-> Append(bs, book), rec |-> book, list |-> <<>>, fault |-> FALSE]

addBookResolve(bs, name, authorId) ==
  LET book == [id |-> Len(bs) + 1, name |-> name, authorId |-> authorId]
  IN  [coll |-> Append(bs, book), rec |-> book, list |-> <<>>, fault |-> FALSE]

\* variant of updateBookResolve that overwrites every book with the id;
\* C4_UpdateOverwritesFirst tells the two apart
updateBookResolve_EveryMatch(bs, id, name, authorId) ==
  LET i == findIndex(bs, id)
      upd(b) == IF b.id = id THEN [b EXCEPT !.name = name, !.authorId = authorId] ELSE b
  IN  IF i = 0
      THEN [coll |-> bs, rec |-> NotFound, list |-> <<>>, fault |-> TRUE]
      ELSE [coll |-> [k \in 1..Len(bs) |-> upd(bs[k])], rec |-> upd(bs[i]),
            list |-> <<>>, fault |-> FALSE]

updateBookResolve(bs, id, name, authorId) ==
  LET i == findIndex(bs, id)
  IN  IF i = 0
      THEN \* book is undefined: "book.name = ..." throws a TypeError
           [coll |-> bs, rec |-> NotFound, list |-> <<>>, fault |-> TRUE]
      ELSE LET book == [bs[i] EXCEPT !.name = name, !.authorId = authorId]
           IN  [coll |-> [bs EXCEPT ![i] = book], rec |-> book,
                list |-> <<>>, fault |-> FALSE]

\* variant of deleteBookResolve that removes the first match only;
\* C6_DeleteReturnsRemaining tells the two apart
deleteBookResolve_FirstOnly(bs, id) ==
  LET i == findIndex(bs, id)
      after == IF i # 0 THEN removeAt(bs, i) ELSE bs
  IN  [coll |-> after, rec |-> NotFound, list |-> after, fault |-> FALSE]

deleteBookResolve(bs, id) ==
  LET after == IF find(bs, id) # NotFound THEN filterOut(bs, id) ELSE bs
  IN  [coll |-> after, rec |-> NotFound, list |-> after, fault |-> FALSE]

addAuthorResolve(as, name) ==
  LET author == [id |-> Len(as) + 1, name |-> name]
  IN  [coll |-> Append(as, author), rec |-> author, list |-> <<>>, fault |-> FALSE]

\* variant of updateAuthorResolve that returns undefined for a missing id
\* instead of throwing; C5_UpdateMissingFaults tells the two apart
updateAuthorResolve_Guarded(as, id, name) ==
  LET i == findIndex(as, id)
  IN  IF i = 0
      THEN [coll |-> as, rec |-> NotFound, list |-> <<>>, fault |-> FALSE]
      ELSE LET author == [as[i] EXCEPT !.name = name]
           IN  [coll |-> [as EXCEPT ![i] = author], rec |-> author,
                list |-> <<>>, fault |-> FALSE]

updateAuthorResolve(as, id, name) ==
  LET i == findIndex(as, id)
  IN  IF i = 0
      THEN \* author is undefined: "author.name = ..." throws a TypeError
           [coll |-> as, rec |-> NotFound, list |-> <<>>, fault |-> TRUE]
      ELSE LET author == [as[i] EXCEPT !.name = name]
           IN  [coll |-> [as EXCEPT ![i] = author], rec |-> author,
                list |-> <<>>, fault |-> FALSE]

\* variant of deleteAuthorResolve that removes the first match only;
\* C9_NoCascade tells the two apart
deleteAuthorResolve_FirstOnly(as, id) ==
  LET i == findIndex(as, id)
      after == IF i # 0 THEN removeAt(as, i) ELSE as
  IN  [coll |-> after, rec |-> NotFound, list |-> after, fault |-> FALSE]

\* variant of deleteAuthorResolve written as authors.splice(index, 1) with no
\* test of the index, which for index -1 removes the last element;
\* C7_DeleteAbsentNoOp tells the two apart
deleteAuthorResolve_Splice(as, id) ==
  LET i == findIndex(as, id)
      after == IF i # 0 THEN filterOut(as, id)
               ELSE IF Len(as) = 0 THEN as ELSE removeAt(as, Len(as))
  IN  [coll |-> after, rec |-> NotFound, list |-> after, fault |-> FALSE]

deleteAuthorResolve(as, id) ==
  LET after == IF find(as, id) # NotFound THEN filterOut(as, id) ELSE as
  IN  [coll |-> after, rec |-> NotFound, list |-> after, fault |-> FALSE]

(* ---------------------------- call records ----------------------------- *)

BookOps == {"addBook", "updateBook", "deleteBook"}
AuthorOps == {"addAuthor", "updateAuthor", "deleteAuthor"}
QueryOps == {"book", "books", "author", "authors"}

\* what the dispatcher saw of one call: operation, arguments, the value the
\* root resolver returned (rec or list), whether it threw, and for a query the
\* values the field resolvers returned for the selected relation (sub)
Call(op, id, name, authorId, r, sub) ==
  [op |-> op, id |-> id, name |-> name, authorId |-> authorId,
   rec |-> r.rec, list |-> r.list, fault |-> r.fault, sub |-> sub]

NoCall ==
  [op |-> "none", id |-> 0, name |-> "", authorId |-> 0,
   rec |-> NotFound, list |-> <<>>, fault |-> FALSE, sub |-> NotFound]

\* the part of a call kept for the two calls before the last one: operation,
\* id argument, id of the record returned (0 when none), and the sizes of
\* books and authors once it had returned
Summary(c, bs, as) ==
  [op |-> c.op, id |-> c.id,
   rid |-> IF c.rec = NotFound THEN 0 ELSE c.rec.id,
   nb |-> Len(bs), na |-> Len(as)]

Shift(h, c, bs, as) ==
  IF c.op = "none" THEN h
  ELSE IF Len(h) < 2 THEN Append(h, Summary(c, bs, as))
  ELSE <<h[2], Summary(c, bs, as)>>

Record(c) ==
  /\ last' = c
  /\ hist' = Shift(hist, last, books, authors)
  /\ calls' = calls + 1

(* ---------------------------- state machine ---------------------------- *)

Init ==
  /\ books = seedBooks
  /\ authors = seedAuthors
  /\ last = NoCall
  /\ hist = <<>>
  /\ calls = 0

AddBook ==
  \E name \in NewNames, authorId \in AuthorRefArgs :
    LET r == addBookResolve(books, name, authorId) IN
      /\ calls < MaxCalls
      /\ books' = r.coll
      /\ UNCHANGED authors
      /\ Record(Call("addBook", 0, name, authorId, r, NotFound))

UpdateBook ==
  \E id \in BookIdArgs, name \in NewNames, authorId \in AuthorRefArgs :
    LET r == updateBookResolve(books, id, name, authorId) IN
      /\ calls < MaxCalls
      /\ books' = r.coll
      /\ UNCHANGED authors
      /\ Record(Call("updateBook", id, name, authorId, r, NotFound))

DeleteBook ==
  \E id \in BookIdArgs :
    LET r == deleteBookResolve(books, id) IN
      /\ calls < MaxCalls
      /\ books' = r.coll
      /\ UNCHANGED authors
      /\ Record(Call("deleteBook", id, "", 0, r, NotFound))

AddAuthor ==
  \E name \in NewNames :
    LET r == addAuthorResolve(authors, name) IN
      /\ calls < MaxCalls
      /\ authors' = r.coll
      /\ UNCHANGED books
      /\ Record(Call("addAuthor", 0, name, 0, r, NotFound))

UpdateAuthor ==
  \E id \in AuthorIdArgs, name \in NewNames :
    LET r == updateAuthorResolve(authors, id, name) IN
      /\ calls < MaxCalls
      /\ authors' = r.coll
      /\ UNCHANGED books
      /\ Record(Call("updateAuthor", id, name, 0, r, NotFound))

DeleteAuthor ==
  \E id \in AuthorIdArgs :
    LET r == deleteAuthorResolve(authors, id) IN
      /\ calls < MaxCalls
      /\ authors' = r.coll
      /\ UNCHANGED books
      /\ Record(Call("deleteAuthor", id, "", 0, r, NotFound))

\* query { book(id: ...) { author } }: the executor calls the author field
\* resolver on the book the root resolver returned, and not at all on undefined
BookQuery ==
  \E id \in BookIdArgs :
    LET book == bookResolve(books, id)
        sub == IF book = NotFound THEN NotFound ELSE BookAuthorResolve(authors, book)
    IN  /\ calls < MaxCalls
        /\ UNCHANGED <<books, authors>>
        /\ Record(Call("book", id, "", 0,
                       [rec |-> book, list |-> <<>>, fault |-> FALSE], sub))

\* query { books { author } }: the author field resolver runs on every book
BooksQuery ==
  LET list == booksResolve(books)
      sub == [i \in 1..Len(list) |-> BookAuthorResolve(authors, list[i])]
  IN  /\ calls < MaxCalls
      /\ UNCHANGED <<books, authors>>
      /\ Record(Call("books", 0, "", 0,
                     [rec |-> NotFound, list |-> list, fault |-> FALSE], sub))

\* query { author(id: ...) { books } }
AuthorQuery ==
  \E id \in AuthorIdArgs :
    LET author == authorResolve(authors, id)
        sub == IF author = NotFound THEN <<>> ELSE AuthorBooksResolve(books, author)
    IN  /\ calls < MaxCalls
        /\ UNCHANGED <<books, authors>>
        /\ Record(Call("author", id, "", 0,
                       [rec |-> author, list |-> <<>>, fault |-> FALSE], sub))

\* query { authors { books } }: the books field resolver runs on every author
AuthorsQuery ==
  LET list == authorsResolve(authors)
      sub == [i \in 1..Len(list) |-> AuthorBooksResolve(books, list[i])]
  IN  /\ calls < MaxCalls
      /\ UNCHANGED <<books, authors>>
      /\ Record(Call("authors", 0, "", 0,
                     [rec |-> NotFound, list |-> list, fault |-> FALSE], sub))

Next ==
  \/ AddBook
  \/ UpdateBook
  \/ DeleteBook
  \/ AddAuthor
  \/ UpdateAuthor
  \/ DeleteAuthor
  \/ BookQuery
  \/ BooksQuery
  \/ AuthorQuery
  \/ AuthorsQuery

Spec == Init /\ [][Next]_vars

(* ============================ properties =============================== *)

\* ---- vocabulary of the properties, stated without find and filter ----

HasId(s, id) == \E i \in 1..Len(s) : s[i].id = id

FirstIndex(s, id) ==
  CHOOSE i \in 1..Len(s) : s[i].id = id /\ \A j \in 1..(i - 1) : s[j].id # id

FirstWithId(s, id) == IF HasId(s, id) THEN s[FirstIndex(s, id)] ELSE NotFound

UniqueIds(s) == \A i, j \in 1..Len(s) : s[i].id = s[j].id => i = j

\* res holds exactly the elements of s at the positions K, each once, in the
\* order they have in s
KeptInOrder(res, s, K) ==
  /\ Len(res) = Cardinality(K)
  /\ \A i \in K : res[Cardinality({j \in K : j <= i})] = s[i]

Others(s, id) == {i \in 1..Len(s) : s[i].id # id}

AppendsOne(old, new, call, r) ==
  /\ ~call.fault
  /\ Len(new) = Len(old) + 1
  /\ new[Len(new)] = r
  /\ call.rec = r
  /\ \A i \in 1..Len(old) : new[i] = old[i]

OverwritesFirst(old, new, call, r) ==
  LET k == FirstIndex(old, call.id) IN
    /\ ~call.fault
    /\ call.rec = r
    /\ Len(new) = Len(old)
    /\ new[k] = r
    /\ \A j \in (1..Len(old)) \ {k} : new[j] = old[j]

RemovesId(old, new, call) ==
  /\ ~call.fault
  /\ call.list = new
  /\ ~HasId(new, call.id)
  /\ KeptInOrder(new, old, Others(old, call.id))

TouchesAtMostOne(old, new) ==
  /\ Len(old) - Len(new) <= 1
  /\ Len(new) - Len(old) <= 1
  /\ Len(new) = Len(old) => Cardinality({i \in 1..Len(old) : new[i] # old[i]}) <= 1
  /\ Len(new) = Len(old) + 1 => \A i \in 1..Len(old) : new[i] = old[i]

Back(k) == hist[Len(hist) + 1 - k]

\* ---- C1 ----
\* C1: addBook(name, authorId) appends exactly one record at the end of books,
\* with id = length of books before the call plus one and the arguments as
\* name and authorId, returns that record and leaves every earlier book in
\* place; addAuthor(name) does the same on authors.
C1_AddAppends ==
  [][ /\ last'.op = "addBook" =>
           /\ AppendsOne(books, books', last',
                [id |-> Len(books) + 1, name |-> last'.name,
                 authorId |-> last'.authorId])
           /\ authors' = authors
      /\ last'.op = "addAuthor" =>
           /\ AppendsOne(authors, authors', last',
                [id |-> Len(authors) + 1, name |-> last'.name])
           /\ books' = books ]_vars

\* an addBook issued right after an addAuthor
C1_Witness ==
  /\ last.op = "addBook"
  /\ Len(hist) >= 1
  /\ Back(1).op = "addAuthor"
  /\ Back(1).rid = Len(authors)
  /\ last.rec = books[Len(books)]
  /\ last.rec.id = Len(books)

\* ---- C2 ----
\* C2: in every reachable state no two books have the same id and no two
\* authors have the same id.
C2_IdsUnique == UniqueIds(books) /\ UniqueIds(authors)

\* ---- C3 ----
\* C3 as stated: after addBook (creating id n), deleteBook(n), addBook, the
\* second new book has the id of another book that is in books.
C3_DeleteNewThenAddDuplicates ==
  ( /\ Len(hist) = 2
    /\ hist[1].op = "addBook"
    /\ hist[2].op = "deleteBook"
    /\ hist[2].id = hist[1].rid
    /\ last.op = "addBook" )
  => \E i \in 1..(Len(books) - 1) : books[i].id = last.rec.id

\* the case C3 as amended is about: addBook (creating id n), then a deleteBook
\* of another id that removed exactly one book, then addBook
C3_Case ==
  /\ Len(hist) = 2
  /\ hist[1].op = "addBook"
  /\ hist[2].op = "deleteBook"
  /\ hist[2].id # hist[1].rid
  /\ hist[2].nb = hist[1].nb - 1
  /\ last.op = "addBook"

\* C3 amended: after addBook (creating id n), deleteBook(m) of an id m # n
\* that exactly one book has, and addBook again, the second new book has id n
\* too, the id of the first new book, which is still in books.
C3_DeleteOtherThenAddDuplicates ==
  C3_Case =>
    /\ last.rec.id = hist[1].rid
    /\ \E i \in 1..(Len(books) - 1) : books[i].id = last.rec.id

C3_Witness == C3_Case /\ ~UniqueIds(books)

\* ---- C4 ----
\* C4: when a book has the given id, updateBook overwrites name and authorId
\* of the first such book in collection order (the one book(id) returns),
\* returns it with the new values, and leaves its id, every other book, the
\* length and order of books and all of authors unchanged; updateAuthor does
\* the same on authors and leaves books unchanged.
C4_UpdateOverwritesFirst ==
  [][ /\ (last'.op = "updateBook" /\ HasId(books, last'.id)) =>
           /\ books[FirstIndex(books, last'.id)] = bookResolve(books, last'.id)
           /\ OverwritesFirst(books, books', last',
                [id |-> last'.id, name |-> last'.name,
                 authorId |-> last'.authorId])
           /\ authors' = authors
      /\ (last'.op = "updateAuthor" /\ HasId(authors, last'.id)) =>
           /\ authors[FirstIndex(authors, last'.id)] = authorResolve(authors, last'.id)
           /\ OverwritesFirst(authors, authors', last',
                [id |-> last'.id, name |-> last'.name])
           /\ books' = books ]_vars

\* an updateBook of an id that two books have: the first one carries the new
\* values, a later one does not
C4_Witness ==
  /\ last.op = "updateBook"
  /\ ~last.fault
  /\ \E i, j \in 1..Len(books) :
       /\ i < j
       /\ books[i].id = last.id
       /\ books[j].id = last.id
       /\ books[i] = last.rec
       /\ books[j] # last.rec

\* ---- C5 ----
\* C5: updateBook or updateAuthor with an id no record of its collection has
\* throws instead of returning a record, and books and authors are after the
\* call exactly what they were before it.
C5_UpdateMissingFaults ==
  [][ /\ (last'.op = "updateBook" /\ ~HasId(books, last'.id)) =>
           last'.fault /\ last'.rec = NotFound /\ books' = books /\ authors' = authors
      /\ (last'.op = "updateAuthor" /\ ~HasId(authors, last'.id)) =>
           last'.fault /\ last'.rec = NotFound /\ books' = books /\ authors' = authors
    ]_vars

\* an updateAuthor that threw right after an updateBook that threw
C5_Witness ==
  /\ last.op = "updateAuthor"
  /\ last.fault
  /\ Len(hist) >= 1
  /\ Back(1).op = "updateBook"
  /\ Back(1).rid = 0

\* ---- C6 ----
\* C6: when a book has the given id, deleteBook(id) returns the books
\* collection as it is after the call, which has no entry with that id and has
\* every book with another id exactly once, in the original relative order and
\* with unchanged fields; deleteAuthor(id) does the same on authors.
C6_DeleteReturnsRemaining ==
  [][ /\ (last'.op = "deleteBook" /\ HasId(books, last'.id)) =>
           RemovesId(books, books', last') /\ Len(books') < Len(books)
      /\ (last'.op = "deleteAuthor" /\ HasId(authors, last'.id)) =>
           RemovesId(authors, authors', last') /\ Len(authors') < Len(authors)
    ]_vars

\* a deleteBook of the id addBook has just returned, which another book had too
C6_Witness ==
  /\ last.op = "deleteBook"
  /\ Len(hist) >= 1
  /\ Back(1).op = "addBook"
  /\ Back(1).rid = last.id
  /\ Len(last.list) = Back(1).nb - 2
  /\ last.list = books

\* ---- C7 ----
\* C7: deleteBook(id) with an id no book has does not throw, leaves books and
\* authors unchanged and returns the unchanged books sequence, the value the
\* books query returned before the call; deleteAuthor does the same on authors.
C7_DeleteAbsentNoOp ==
  [][ /\ (last'.op = "deleteBook" /\ ~HasId(books, last'.id)) =>
           /\ ~last'.fault
           /\ books' = books /\ authors' = authors
           /\ last'.list = booksResolve(books)
      /\ (last'.op = "deleteAuthor" /\ ~HasId(authors, last'.id)) =>
           /\ ~last'.fault
           /\ books' = books /\ authors' = authors
           /\ last'.list = authorsResolve(authors)
    ]_vars

\* a deleteAuthor that removed nothing, right after a books query
C7_Witness ==
  /\ last.op = "deleteAuthor"
  /\ Len(hist) >= 1
  /\ Back(1).na = Len(last.list)
  /\ Back(1).op = "authors"
  /\ last.list = authors
  /\ Len(authors) > 0

\* ---- C8 ----
\* C8: the author resolver returns, for a book b of books, the first author in
\* collection order whose id is b.authorId, or not-found when there is none;
\* the books resolver returns, for an author a of authors, exactly the books
\* whose authorId is a.id, each once, in collection order; neither changes
\* books or authors.
C8_ResolversCorrect ==
  [][ /\ last'.op \in QueryOps => books' = books /\ authors' = authors /\ ~last'.fault
      /\ last'.op = "books" =>
           /\ last'.list = books
           /\ DOMAIN last'.sub = 1..Len(books)
           /\ \A i \in 1..Len(books) :
                last'.sub[i] = FirstWithId(authors, books[i].authorId)
      /\ (last'.op = "book" /\ HasId(books, last'.id)) =>
           /\ last'.rec = FirstWithId(books, last'.id)
           /\ last'.sub = FirstWithId(authors, last'.rec.authorId)
      /\ last'.op = "authors" =>
           /\ last'.list = authors
           /\ DOMAIN last'.sub = 1..Len(authors)
           /\ \A i \in 1..Len(authors) :
                KeptInOrder(last'.sub[i], books,
                  {j \in 1..Len(books) : books[j].authorId = authors[i].id})
      /\ (last'.op = "author" /\ HasId(authors, last'.id)) =>
           /\ last'.rec = FirstWithId(authors, last'.id)
           /\ KeptInOrder(last'.sub, books,
                {j \in 1..Len(books) : books[j].authorId = last'.id})
    ]_vars

\* a books query in a state where two authors share an id and some book has
\* no author: one book resolved to not-found, another to the first of the two
C8_Witness ==
  /\ last.op = "books"
  /\ ~UniqueIds(authors)
  /\ \E i \in 1..Len(books) : last.sub[i] = NotFound
  /\ \E i \in 1..Len(books) : \E j, k \in 1..Len(authors) :
       /\ j < k
       /\ authors[j].id = authors[k].id
       /\ authors[j] # authors[k]
       /\ last.sub[i] = authors[j]

\* ---- C9 ----
\* C9: deleteAuthor(id) leaves books unchanged, and right after it every book
\* whose authorId is the deleted id resolves its author to not-found.
C9_NoCascade ==
  [][ last'.op = "deleteAuthor" =>
        /\ ~last'.fault
        /\ books' = books
        /\ \A i \in 1..Len(books') :
             books'[i].authorId = last'.id =>
               BookAuthorResolve(authors', books'[i]) = NotFound ]_vars

\* a deleteAuthor of an id two authors had, with books that refer to it
C9_Witness ==
  /\ last.op = "deleteAuthor"
  /\ Len(hist) >= 1
  /\ Back(1).op = "addAuthor"
  /\ Back(1).rid = last.id
  /\ Len(last.list) = Back(1).na - 2
  /\ \E i \in 1..Len(books) : books[i].authorId = last.id

\* ---- C10 ----
\* C10: every mutation call adds, changes or removes at most one record of
\* books and authors; a delete never shortens its collection by more than one.
C10_AtMostOneRecord ==
  [][ last'.op \in BookOps \cup AuthorOps =>
        /\ TouchesAtMostOne(books, books')
        /\ TouchesAtMostOne(authors, authors')
        /\ books' = books \/ authors' = authors ]_vars

====
